---- MODULE Spec2Model ----
(***************************************************************************)
(* The schema registry of t3-amqp: the table s1.schema (database/ddl/      *)
(* t3.sql) and the operations of package db (t3-amqp/db/db_utils.go) that  *)
(* concurrent callers run against it through a shared connection pool.     *)
(*                                                                         *)
(* Every SQL statement is one atomic step (each runs in its own implicit   *)
(* transaction); the Go code between two statements is local to a caller.  *)
(* A multi-statement operation (UpdateSchema) therefore interleaves with   *)
(* the statements of other callers.                                        *)
(***************************************************************************)
EXTENDS Integers, Sequences, FiniteSets, TLC

(***************************************************************************)
(* Bounds of the model.                                                    *)
(***************************************************************************)
\* the id sequence s1.schema_id_seq is not advanced beyond MaxId
MaxId == 2
\* the wall clock read by time.Now() is not advanced beyond MaxClock
MaxClock == 1

\* the concurrent callers (HTTP requests in flight)
Callers == {"c1", "c2"}

(***************************************************************************)
(* schema_data.  A Go string holding a JSON object is abstracted to the    *)
(* list of its members in the order they are written; k is the rank of the *)
(* member's key in jsonb's key order and v its value.  The empty list is   *)
(* the empty Go string, which is not a JSON text.  The column is JSONB:    *)
(* the text is parsed on the way in (the last of several equal keys wins,  *)
(* the order of the keys is forgotten) and printed on the way out (keys in *)
(* jsonb's order).                                                         *)
(***************************************************************************)
Member(k, v) == [k |-> k, v |-> v]

ValidJson(text) == text # <<>>

MaxOf(S) == CHOOSE x \in S : \A y \in S : y <= x
MinOf(S) == CHOOSE x \in S : \A y \in S : x <= y

\* jsonb_in: the stored value maps each key to the value of its last member
JsonbIn(text) ==
  LET keys == {text[i].k : i \in DOMAIN text}
  IN  [key \in keys |-> text[MaxOf({i \in DOMAIN text : text[i].k = key})].v]

\* jsonb_out: the members in key order
RECURSIVE JsonbOut(_)
JsonbOut(j) ==
  IF DOMAIN j = {} THEN <<>>
  ELSE LET m == MinOf(DOMAIN j)
       IN  <<Member(m, j[m])>> \o JsonbOut([x \in DOMAIN j \ {m} |-> j[x]])

(***************************************************************************)
(* Types of the program.                                                   *)
(***************************************************************************)
\* CREATE TYPE s1.schema_type AS ENUM (...)
schema_type == {"avro", "json", "protobuf", "xsd", "thrift", "confluent"}

\* type QueryArgs struct
QueryArgs(name, type, version, data) ==
  [Name |-> name, Type |-> type, Version |-> version, SchemaData |-> data]

\* the zero QueryArgs
NoArgs == QueryArgs("", "", "", <<>>)

\* type Schema struct, as filled by rows.Scan from one row of s1.schema
Schema(r) ==
  [ID |-> r.id, Name |-> r.name, Type |-> r.type, Version |-> r.version,
   SchemaData |-> JsonbOut(r.schema_data),
   Created |-> r.created, Modified |-> r.modified]

(***************************************************************************)
(* Errors: the chain of messages built by fmt.Errorf("...: %w", err), the  *)
(* outermost first; a PostgreSQL error is its SQLSTATE.  nil is <<>>.      *)
(***************************************************************************)
nil == <<>>
unique_violation == "23505"
invalid_text_representation == "22P02"
Errorf(msg, err) == <<msg>> \o err

(***************************************************************************)
(* State.                                                                  *)
(***************************************************************************)
VARIABLES
  heap,    \* s1.schema: its live rows in the order a sequential scan returns them
  seq,     \* s1.schema_id_seq, the last value nextval() returned (SERIAL)
  now,     \* the wall clock
  pc,      \* pc[c]: where caller c is in its operation
  call,    \* call[c]: the operation caller c runs (or ran last) and its arguments
  stamp,   \* stamp[c]: the local variable created / modified of caller c
  ret,     \* ret[c]: the id and the error the operation of caller c returned
  out      \* the []Schema the step just taken returned, and to which caller

vars == <<heap, seq, now, pc, call, stamp, ret, out>>

NoCall == [op |-> "", params |-> NoArgs, id |-> 0]
NoRet == [id |-> 0, err |-> nil]
NoOut == [c |-> "", schemas |-> <<>>]

Init ==
  /\ heap = <<>>
  /\ seq = 0
  /\ now = 0
  /\ pc = [c \in Callers |-> "idle"]
  /\ call = [c \in Callers |-> NoCall]
  /\ stamp = [c \in Callers |-> 0]
  /\ ret = [c \in Callers |-> NoRet]
  /\ out = NoOut

\* a caller between two operations
Ready(c) == pc[c] \in {"idle", "done"}

\* time.Now().UTC(): the clock never runs backwards
TimeNow == {t \in {now, now + 1} : t <= MaxClock}

\* caller c starts operation op
Begin(c, op, params, id) ==
  /\ Ready(c)
  /\ call' = [call EXCEPT ![c] = [op |-> op, params |-> params, id |-> id]]

\* the operation of caller c returns (id, schemas, err)
Return(c, id, schemas, err) ==
  /\ pc' = [pc EXCEPT ![c] = "done"]
  /\ ret' = [ret EXCEPT ![c] = [id |-> id, err |-> err]]
  /\ out' = [c |-> c, schemas |-> schemas]

\* caller c goes on to the statement at label
Goto(c, label) ==
  /\ pc' = [pc EXCEPT ![c] = label]
  /\ ret' = [ret EXCEPT ![c] = NoRet]
  /\ out' = NoOut

(***************************************************************************)
(* The table.                                                              *)
(***************************************************************************)
\* a table without the constraint
NoConstraint(h, name, type, version) == TRUE

\* ADD CONSTRAINT unique_name_type_version UNIQUE (name, type, version)
unique_name_type_version(h, name, type, version) ==
  \A i \in DOMAIN h :
    ~(h[i].name = name /\ h[i].type = type /\ h[i].version = version)

\* the conditions without that of the name
ConditionsNoName(params) ==
  (IF params.Type # "" THEN <<"type = @type">> ELSE <<>>)
  \o (IF params.Version # "" THEN <<"version = @version">> ELSE <<>>)

\* the conditions GetSchemaFilterParams appends, in order
Conditions(params) ==
  (IF params.Name # "" THEN <<"name = @name">> ELSE <<>>)
  \o (IF params.Type # "" THEN <<"type = @type">> ELSE <<>>)
  \o (IF params.Version # "" THEN <<"version = @version">> ELSE <<>>)

\* one condition of the WHERE clause on one row
Holds(cond, r, params) ==
  CASE cond = "name = @name" -> r.name = params.Name
    [] cond = "type = @type" -> r.type = params.Type
    [] cond = "version = @version" -> r.version = params.Version

\* the conditions joined with " OR "
WhereAny(conditions, r, params) ==
  \E i \in DOMAIN conditions : Holds(conditions[i], r, params)

\* strings.Join(conditions, " AND "); no WHERE clause without conditions
Where(conditions, r, params) ==
  \A i \in DOMAIN conditions : Holds(conditions[i], r, params)

\* GetSchemaFilterParams: the SELECT and the scan loop
GetSchemaFilterParams(h, params) ==
  LET conditions == Conditions(params)
      rows == SelectSeq(h, LAMBDA r : Where(conditions, r, params))
  IN  [i \in DOMAIN rows |-> Schema(rows[i])]

\* GetAllSchemas: SELECT ... FROM s1.schema and the scan loop
GetAllSchemas(h) == [i \in DOMAIN h |-> Schema(h[i])]

(***************************************************************************)
(* The statements.                                                         *)
(***************************************************************************)
\* a row written without the payload of the candidate
NewRowEmptyObject(id, params, created, modified) ==
  [id |-> id, name |-> params.Name, type |-> params.Type,
   version |-> params.Version, schema_data |-> JsonbIn(<<>>),
   created |-> created, modified |-> modified]

\* the row INSERT writes
NewRow(id, params, created, modified) ==
  [id |-> id, name |-> params.Name, type |-> params.Type,
   version |-> params.Version, schema_data |-> JsonbIn(params.SchemaData),
   created |-> created, modified |-> modified]

\* an id one above the greatest id in the table, not drawn from the sequence
InsertStatementNextFree(h, s, params, created, modified) ==
  IF params.Type \notin schema_type \/ ~ValidJson(params.SchemaData)
  THEN [heap |-> h, seq |-> s, id |-> 0,
        err |-> <<invalid_text_representation>>]
  ELSE IF ~unique_name_type_version(h, params.Name, params.Type, params.Version)
  THEN [heap |-> h, seq |-> s + 1, id |-> 0, err |-> <<unique_violation>>]
  ELSE LET id == MaxOf({0} \cup {h[i].id : i \in DOMAIN h}) + 1
       IN  [heap |-> Append(h, NewRow(id, params, created, modified)),
            seq |-> s + 1, id |-> id, err |-> nil]

\* INSERT ... ON CONFLICT DO NOTHING RETURNING id
InsertStatementDoNothing(h, s, params, created, modified) ==
  IF params.Type \notin schema_type \/ ~ValidJson(params.SchemaData)
  THEN [heap |-> h, seq |-> s, id |-> 0,
        err |-> <<invalid_text_representation>>]
  ELSE IF ~unique_name_type_version(h, params.Name, params.Type, params.Version)
  THEN [heap |-> h, seq |-> s + 1, id |-> 0, err |-> nil]
  ELSE [heap |-> Append(h, NewRow(s + 1, params, created, modified)),
        seq |-> s + 1, id |-> s + 1, err |-> nil]

\* INSERT INTO s1.schema (...) VALUES (...) RETURNING id.  A value that is no
\* schema_type, or no JSON text, is refused when the parameters are bound; the
\* id is drawn from the sequence before the unique index is checked, and a
\* value drawn is never given back.  A new row goes to the end of the heap.
InsertStatement(h, s, params, created, modified) ==
  IF params.Type \notin schema_type \/ ~ValidJson(params.SchemaData)
  THEN [heap |-> h, seq |-> s, id |-> 0, err |-> <<invalid_text_representation>>]
  ELSE IF ~unique_name_type_version(h, params.Name, params.Type, params.Version)
  THEN [heap |-> h, seq |-> s + 1, id |-> 0, err |-> <<unique_violation>>]
  ELSE [heap |-> Append(h, NewRow(s + 1, params, created, modified)),
        seq |-> s + 1, id |-> s + 1, err |-> nil]

\* WHERE type = @type AND version = @version
UpdateWhereAnyName(r, params) ==
  r.type = params.Type /\ r.version = params.Version

\* WHERE name = @name AND type = @type AND version = @version
UpdateWhere(r, params) ==
  r.name = params.Name /\ r.type = params.Type /\ r.version = params.Version

\* SET modified = @modified
UpdateSetModified(r, params, modified) == [r EXCEPT !.modified = modified]

\* SET schema_data = @schema_data, modified = @modified
UpdateSet(r, params, modified) ==
  [r EXCEPT !.schema_data = JsonbIn(params.SchemaData), !.modified = modified]

\* an UPDATE that loses the rows it matches
UpdateStatementLoses(h, params, modified) ==
  IF ~ValidJson(params.SchemaData)
  THEN [heap |-> h, err |-> <<invalid_text_representation>>]
  ELSE [heap |-> SelectSeq(h, LAMBDA r : ~UpdateWhere(r, params)), err |-> nil]

\* UPDATE s1.schema SET ... WHERE ...: the new version of a row is written at
\* the end of the heap and the old one is dead; no row matching is no error.
UpdateStatement(h, params, modified) ==
  IF ~ValidJson(params.SchemaData)
  THEN [heap |-> h, err |-> <<invalid_text_representation>>]
  ELSE LET kept == SelectSeq(h, LAMBDA r : ~UpdateWhere(r, params))
           hit == SelectSeq(h, LAMBDA r : UpdateWhere(r, params))
       IN  [heap |-> kept \o [i \in DOMAIN hit |-> UpdateSet(hit[i], params, modified)],
            err |-> nil]

\* DELETE FROM s1.schema WHERE id <= @id
DeleteStatementUpTo(h, id) == SelectSeq(h, LAMBDA r : r.id > id)

\* DELETE FROM s1.schema WHERE id = @id: no row matching is no error
DeleteStatement(h, id) == SelectSeq(h, LAMBDA r : r.id # id)

(***************************************************************************)
(* InsertSchema.                                                           *)
(***************************************************************************)
\* created := time.Now().UTC(); modified := created
InsertSchemaNow(c) ==
  /\ \E t \in TimeNow :
       /\ now' = t
       /\ stamp' = [stamp EXCEPT ![c] = t]
  /\ Goto(c, "InsertSchema.insert")

\* a caller calls InsertSchema(pool, params)
InsertSchemaCall(c, params) ==
  /\ Begin(c, "InsertSchema", params, 0)
  /\ InsertSchemaNow(c)
  /\ UNCHANGED <<heap, seq>>

\* the error of the statement dropped
InsertSchemaErrDropped(err) == nil

\* the error InsertSchema returns for the error of its statement
InsertSchemaErr(err) ==
  IF err # nil THEN Errorf("error inserting schema", err) ELSE nil

\* pool.QueryRow(ctx, query, args).Scan(&id), and the return of InsertSchema;
\* called from UpdateSchema, UpdateSchema goes on with what it returned
InsertSchemaExec(c) ==
  /\ pc[c] = "InsertSchema.insert"
  /\ LET res == InsertStatement(heap, seq, call[c].params, stamp[c], stamp[c])
         err == InsertSchemaErr(res.err)
     IN  /\ res.seq <= MaxId
         /\ heap' = res.heap
         /\ seq' = res.seq
         /\ IF call[c].op = "InsertSchema"
            THEN Return(c, res.id, <<>>, err)
            ELSE IF err # nil
            THEN Return(c, 0, <<>>, Errorf("error inserting schema", err))
            ELSE Goto(c, "UpdateSchema.return")
  /\ stamp' = [stamp EXCEPT ![c] = 0]
  /\ UNCHANGED <<now, call>>

(***************************************************************************)
(* GetSchemaFilterParams, GetAllSchemas, DeleteSchema: one statement each. *)
(***************************************************************************)
GetSchemaFilterParamsCall(c, params) ==
  /\ Begin(c, "GetSchemaFilterParams", params, 0)
  /\ Return(c, 0, GetSchemaFilterParams(heap, params), nil)
  /\ UNCHANGED <<heap, seq, now, stamp>>

GetAllSchemasCall(c) ==
  /\ Begin(c, "GetAllSchemas", NoArgs, 0)
  /\ Return(c, 0, GetAllSchemas(heap), nil)
  /\ UNCHANGED <<heap, seq, now, stamp>>

DeleteSchemaCall(c, id) ==
  /\ Begin(c, "DeleteSchema", NoArgs, id)
  /\ heap' = DeleteStatement(heap, id)
  /\ Return(c, 0, <<>>, nil)
  /\ UNCHANGED <<seq, now, stamp>>

(***************************************************************************)
(* UpdateSchema.                                                           *)
(***************************************************************************)
\* "Check if any argument except schema_data has changed"
Changed(existing, params) ==
  existing.Name # params.Name \/ existing.Type # params.Type
    \/ existing.Version # params.Version

\* an update that registers the candidate when its first read returned nothing
UpdateSchemaBranchUpsert(existingSchemas, params) ==
  IF Len(existingSchemas) = 0 \/ Changed(existingSchemas[1], params)
  THEN "insert"
  ELSE "update"

\* what UpdateSchema does with the schemas its first read returned
UpdateSchemaBranch(existingSchemas, params) ==
  IF Len(existingSchemas) = 0 THEN "not found"
  ELSE IF Changed(existingSchemas[1], params) THEN "insert"
  ELSE "update"

\* a caller calls UpdateSchema(pool, params): the read of the existing schema
\* and the decision taken on what it returned
UpdateSchemaCall(c, params) ==
  /\ Begin(c, "UpdateSchema", params, 0)
  /\ LET existingSchemas ==
           GetSchemaFilterParams(
             heap, QueryArgs(params.Name, params.Type, params.Version, <<>>))
         branch == UpdateSchemaBranch(existingSchemas, params)
     IN  CASE branch = "not found" -> Return(c, 0, <<>>, <<"schema not found">>)
           [] branch = "insert" -> Goto(c, "UpdateSchema.insert")
           [] branch = "update" -> Goto(c, "UpdateSchema.now")
  /\ UNCHANGED <<heap, seq, now, stamp>>

\* "Perform an insert instead of an update": InsertSchema(pool, params)
UpdateSchemaInsert(c) ==
  /\ pc[c] = "UpdateSchema.insert"
  /\ InsertSchemaNow(c)
  /\ UNCHANGED <<heap, seq, call>>

\* modified := time.Now().UTC()
UpdateSchemaNow(c) ==
  /\ pc[c] = "UpdateSchema.now"
  /\ \E t \in TimeNow :
       /\ now' = t
       /\ stamp' = [stamp EXCEPT ![c] = t]
  /\ Goto(c, "UpdateSchema.update")
  /\ UNCHANGED <<heap, seq, call>>

\* pool.Exec(ctx, query, args) of the UPDATE
UpdateSchemaExec(c) ==
  /\ pc[c] = "UpdateSchema.update"
  /\ LET res == UpdateStatement(heap, call[c].params, stamp[c])
     IN  /\ heap' = res.heap
         /\ IF res.err # nil
            THEN Return(c, 0, <<>>, Errorf("error updating schema", res.err))
            ELSE Goto(c, "UpdateSchema.return")
  /\ stamp' = [stamp EXCEPT ![c] = 0]
  /\ UNCHANGED <<seq, now, call>>

\* return GetSchemaFilterParams(pool, params)
UpdateSchemaReturn(c) ==
  /\ pc[c] = "UpdateSchema.return"
  /\ Return(c, 0, GetSchemaFilterParams(heap, call[c].params), nil)
  /\ UNCHANGED <<heap, seq, now, call, stamp>>

(***************************************************************************)
(* The arguments the callers present.                                      *)
(***************************************************************************)
\* a document in jsonb's form
P1 == <<Member(1, 1)>>
\* another
P2 == <<Member(1, 2)>>
\* a document written with its keys in another order than jsonb's
P3 == <<Member(2, 1), Member(1, 1)>>

Payloads == {P1, P2, P3}

\* the candidates with every field set, over the given names and types
WellFormed(names, types, versions) ==
  {QueryArgs(n, t, v, p) : n \in names, t \in types, v \in versions, p \in Payloads}

\* a candidate that leaves the name out
Nameless == QueryArgs("", "json", "1.0.0", P2)

\* the filter criteria: every field unset ("") or one of the given values
Filters(names, types, versions) ==
  {QueryArgs(n, t, v, <<>>) :
     n \in names \cup {""}, t \in types \cup {""}, v \in versions \cup {""}}

\* the ids presented to delete
Ids == 1..MaxId

\* the steps of the callers CS, who register the candidates IC, update with the
\* candidates UC, look up with the criteria FC and delete the ids DI
Run(CS, IC, UC, FC, DI) ==
  \E c \in CS :
    \/ \E params \in IC : InsertSchemaCall(c, params)
    \/ InsertSchemaExec(c)
    \/ \E params \in FC : GetSchemaFilterParamsCall(c, params)
    \/ GetAllSchemasCall(c)
    \/ \E id \in DI : DeleteSchemaCall(c, id)
    \/ \E params \in UC : UpdateSchemaCall(c, params)
    \/ UpdateSchemaInsert(c)
    \/ UpdateSchemaNow(c)
    \/ UpdateSchemaExec(c)
    \/ UpdateSchemaReturn(c)

\* two callers contend for one identity
Contended == WellFormed({"orders"}, {"json"}, {"1.0.0"})

Next ==
  Run(Callers, Contended, Contended \cup {Nameless},
      Filters({"orders"}, {}, {}), Ids)

Spec == Init /\ [][Next]_vars

\* one caller works on several identities
Several == WellFormed({"orders", "users"}, {"json"}, {"1.0.0"})

NextSeq ==
  Run({"c1"}, Several, Several \cup {Nameless},
      Filters({"orders", "users"}, {"json", "avro"}, {"1.0.0", "1.0.1"}), Ids)

SpecSeq == Init /\ [][NextSeq]_vars

\* two callers register once each, and nothing else happens
NextRace ==
  \E c \in Callers :
    \/ /\ pc[c] = "idle"
       /\ \E params \in Several : InsertSchemaCall(c, params)
    \/ InsertSchemaExec(c)

SpecRace == Init /\ [][NextRace]_vars

(***************************************************************************)
(* The status UpdateSchemaHandler answers with.                            *)
(***************************************************************************)
StatusOK == 200
StatusNotFound == 404
StatusInternalServerError == 500

\* err.Error(): the messages of the chain joined by ": ", which is "schema not
\* found" for the chain of that one message alone
UpdateSchemaHandler(err) ==
  IF err = nil THEN StatusOK
  ELSE IF err = <<"schema not found">> THEN StatusNotFound
  ELSE StatusInternalServerError

(***************************************************************************)
(* What the properties speak of.                                           *)
(***************************************************************************)
\* the rows of h with the identity of the candidate params
Identical(h, params) ==
  {i \in DOMAIN h : /\ h[i].name = params.Name
                    /\ h[i].type = params.Type
                    /\ h[i].version = params.Version}

\* lookup({name, type, version}) with the identity of params
Lookup(h, params) ==
  GetSchemaFilterParams(h, QueryArgs(params.Name, params.Type, params.Version, <<>>))

\* a candidate the data model admits
Valid(params) ==
  /\ params.Name # ""
  /\ params.Type \in schema_type
  /\ params.Version # ""
  /\ ValidJson(params.SchemaData)

\* the error is, or wraps, the unique violation of the store
ConstraintViolation(err) == err # nil /\ err[Len(err)] = unique_violation

\* the step just taken returned from the operation op of caller c
Returned(c, op) == out.c = c /\ call[c].op = op

\* this step is the INSERT of InsertSchema called by caller c
Inserts(c) ==
  /\ pc[c] = "InsertSchema.insert"
  /\ call[c].op = "InsertSchema"
  /\ pc'[c] = "done"

\* this step is the UPDATE of UpdateSchema called by caller c
Updates(c) ==
  /\ pc[c] = "UpdateSchema.update"
  /\ pc'[c] = "UpdateSchema.return"

\* with this step caller c calls the operation op
Calls(c, op) ==
  /\ Ready(c)
  /\ call'[c].op = op
  /\ out'.c = c \/ ~Ready(c)'

\* a candidate with its three identity fields set
Named(params) == params.Name # "" /\ params.Type # "" /\ params.Version # ""

\* the record a lookup finds is that of the candidate, its payload the text given
Shows(schema, params, text) ==
  /\ schema.Name = params.Name
  /\ schema.Type = params.Type
  /\ schema.Version = params.Version
  /\ schema.SchemaData = text

(***************************************************************************)
(* C1.  In every reachable state, whatever register, update and delete     *)
(* calls the concurrent callers have interleaved, no two live records have *)
(* the same (name, type, version).                                         *)
(***************************************************************************)
C1_UniqueIdentity ==
  \A i, j \in DOMAIN heap :
    (/\ heap[i].name = heap[j].name
     /\ heap[i].type = heap[j].type
     /\ heap[i].version = heap[j].version) => i = j

\* a register was refused for its identity while the other caller was about to
\* write its update of that identity
C1_Witness ==
  \E c, d \in Callers :
    /\ pc[c] = "done" /\ call[c].op = "InsertSchema"
    /\ ConstraintViolation(ret[c].err)
    /\ pc[d] = "UpdateSchema.update"
    /\ Identical(heap, call[c].params) = Identical(heap, call[d].params)
    /\ Len(heap) = 1

C3_DuplicateRefused ==
  [][\A c \in Callers :
       LET params == call[c].params
       IN  Inserts(c) /\ ValidJson(params.SchemaData)
             /\ Identical(heap, params) # {}
           => /\ ConstraintViolation(ret'[c].err)
              /\ ret'[c].id = 0
              /\ heap' = heap
              /\ Len(Lookup(heap', params)) = 1
              /\ Lookup(heap', params) = Lookup(heap, params)]_vars

\* a register was refused and the record of its identity holds another payload
C3_Witness ==
  \E c \in Callers :
    /\ Returned(c, "InsertSchema")
    /\ ConstraintViolation(ret[c].err)
    /\ Len(Lookup(heap, call[c].params)) = 1
    /\ Lookup(heap, call[c].params)[1].SchemaData # call[c].params.SchemaData
    /\ Lookup(heap, call[c].params)[1].ID = 1

(***************************************************************************)
(* C4.  The write of update(n, t, v, p2) on an existing identity, n, t and *)
(* v not empty, changes                                                    *)
(* the payload and the modified time of that one record and nothing else:  *)
(* its id, created time and identity stay, every other record stays, no    *)
(* record comes or goes, and a lookup of (n, t, v) then shows payload p2.  *)
(***************************************************************************)
\* the row of h with the id of row r stands as r does, but for what an update
\* of its payload at time t may change
Kept(h, r, touched, t) ==
  \E j \in DOMAIN h :
    /\ h[j].id = r.id
    /\ IF touched
       THEN /\ h[j].name = r.name /\ h[j].type = r.type
            /\ h[j].version = r.version
            /\ h[j].created = r.created
            /\ h[j].modified = t
       ELSE h[j] = r

\* the frame of the write of caller c
C4_Frame(c) ==
  /\ Len(heap') = Len(heap)
  /\ seq' = seq
  /\ \A i \in DOMAIN heap :
       Kept(heap', heap[i], i \in Identical(heap, call[c].params), stamp[c])
  /\ Len(Lookup(heap', call[c].params)) = 1
  /\ Lookup(heap', call[c].params)[1].ID = Lookup(heap, call[c].params)[1].ID

C6_Original ==
  [][\A c \in Callers :
       LET params == call'[c].params
       IN  Calls(c, "UpdateSchema") /\ Valid(params)
             /\ Identical(heap, params) = {}
             /\ heap # <<>>
           => /\ ret'[c].err = nil
              /\ pc'[c] = "UpdateSchema.insert"]_vars

(***************************************************************************)
(* C7.  Of two registrations of one identity with valid payloads issued    *)
(* at the same time exactly one succeeds and the other fails with the      *)
(* violation of the uniqueness constraint; one record with that identity   *)
(* exists afterwards.                                                      *)
(***************************************************************************)
SameIdentity(p, q) ==
  p.Name = q.Name /\ p.Type = q.Type /\ p.Version = q.Version

C7_OneRegistrationWins ==
  \A c, d \in Callers :
    /\ c # d
    /\ pc[c] = "done" /\ call[c].op = "InsertSchema"
    /\ pc[d] = "done" /\ call[d].op = "InsertSchema"
    /\ SameIdentity(call[c].params, call[d].params)
    => /\ Cardinality({e \in {c, d} : ret[e].err = nil}) = 1
       /\ Cardinality({e \in {c, d} : ConstraintViolation(ret[e].err)}) = 1
       /\ Cardinality(Identical(heap, call[c].params)) = 1
       /\ \E e \in {c, d} :
            /\ ret[e].err = nil
            /\ heap[MinOf(Identical(heap, call[c].params))].id = ret[e].id
            /\ heap[MinOf(Identical(heap, call[c].params))].schema_data
                 = JsonbIn(call[e].params.SchemaData)

\* both registrations of one identity have returned; the second caller's went
\* through, with a payload other than the first caller's
C7_Witness ==
  /\ pc["c1"] = "done" /\ pc["c2"] = "done"
  /\ SameIdentity(call["c1"].params, call["c2"].params)
  /\ ConstraintViolation(ret["c1"].err)
  /\ ret["c2"].err = nil
  /\ Len(heap) = 1
  /\ heap[1].schema_data # JsonbIn(call["c1"].params.SchemaData)

(***************************************************************************)
(* C8.  When two callers update one existing identity, n, t and v not      *)
(* empty, with the payloads p2 and p3, whatever the interleaving of their  *)
(* reads and writes, the write that comes last leaves exactly one record   *)
(* of that identity, holding the payload of that write: the payload from   *)
(* before the updates does not survive them.                               *)
(***************************************************************************)
\* both callers have written their update of one identity
BothWrote(c, d) ==
  /\ c # d
  /\ pc[c] = "UpdateSchema.return" /\ pc[d] = "UpdateSchema.return"
  /\ Named(call[c].params)
  /\ SameIdentity(call[c].params, call[d].params)

\* this step is the write of caller c, coming after that of caller d
WritesLast(c, d) ==
  /\ c # d
  /\ Updates(c)
  /\ pc[d] = "UpdateSchema.return" /\ call[d].op = "UpdateSchema"
  /\ Named(call[c].params)
  /\ SameIdentity(call[c].params, call[d].params)

Satisfies(r, q) ==
  /\ q.Name = "" \/ r.name = q.Name
  /\ q.Type = "" \/ r.type = q.Type
  /\ q.Version = "" \/ r.version = q.Version

C10_Original ==
  \A c \in Callers :
    Returned(c, "GetAllSchemas") \/ Returned(c, "GetSchemaFilterParams")
    => \A i, j \in DOMAIN out.schemas :
         i < j => out.schemas[i].ID < out.schemas[j].ID

(***************************************************************************)
(* GetSchemaById.  QueryRow(...).Scan of pgx: without a row it returns     *)
(* ErrNoRows; with a row it refuses to scan when the destinations are not  *)
(* as many as the columns selected.                                        *)
(***************************************************************************)
\* SELECT id, name, type, version, schema_data, created, modified
GetSchemaByIdColumns ==
  <<"id", "name", "type", "version", "schema_data", "created", "modified">>

\* row.Scan(&schema.ID, &schema.Name, &schema.Type, &schema.Version,
\*          &schema.SchemaData)
GetSchemaByIdDest == <<"ID", "Name", "Type", "Version", "SchemaData">>

ErrNoRows == "no rows in result set"
ErrDestinations ==
  "number of field descriptions must equal number of destinations"

\* the error of row.Scan(dest...) on the rows a query found
RowScan(rows, columns, dest) ==
  IF Len(rows) = 0 THEN <<ErrNoRows>>
  ELSE IF Len(columns) # Len(dest) THEN <<ErrDestinations>>
  ELSE nil

\* the schema and the error GetSchemaById returns for the heap h
GetSchemaById(h, id) ==
  LET rows == SelectSeq(h, LAMBDA r : r.id = id)
      err  == RowScan(rows, GetSchemaByIdColumns, GetSchemaByIdDest)
  IN  IF err # nil
      THEN [schemas |-> <<>>, err |-> Errorf("error getting schema", err)]
      ELSE [schemas |-> <<[Schema(rows[1]) EXCEPT !.Created = 0,
                                                   !.Modified = 0]>>,
            err |-> nil]

GetSchemaByIdCall(c, id) ==
  /\ Begin(c, "GetSchemaById", NoArgs, id)
  /\ Return(c, 0, GetSchemaById(heap, id).schemas, GetSchemaById(heap, id).err)
  /\ UNCHANGED <<heap, seq, now, stamp>>

\* one caller registers, updates, deletes, looks up and gets by id
NextById ==
  \/ Run({"c1"}, Several, Several \cup {Nameless},
         Filters({"orders"}, {}, {}), Ids)
  \/ \E id \in Ids : GetSchemaByIdCall("c1", id)

SpecById == Init /\ [][NextById]_vars

\* the rows of h with the id given
WithId(h, id) == {i \in DOMAIN h : h[i].id = id}

\* the error is, or wraps, the absence of the row asked for
NotFound(err) == err # nil /\ err[Len(err)] = ErrNoRows

(***************************************************************************)
(* C11.  getById(id) on the id of a live record succeeds and returns the   *)
(* record with its registered name, type, version and payload; it fails,   *)
(* with NotFound, only when no live record has that id.                    *)
(***************************************************************************)
C11_Original ==
  \A c \in Callers :
    Returned(c, "GetSchemaById")
    => IF WithId(heap, call[c].id) # {}
       THEN /\ ret[c].err = nil
            /\ Len(out.schemas) = 1
            /\ \E i \in WithId(heap, call[c].id) :
                 /\ out.schemas[1].ID = heap[i].id
                 /\ out.schemas[1].Name = heap[i].name
                 /\ out.schemas[1].Type = heap[i].type
                 /\ out.schemas[1].Version = heap[i].version
                 /\ JsonbIn(out.schemas[1].SchemaData) = heap[i].schema_data
       ELSE NotFound(ret[c].err)

(***************************************************************************)
(* C12.  delete(id) on a live id succeeds and removes the record with that *)
(* id and no other; an id whose record is gone is never live again, and    *)
(* getById of an id no live record has fails with NotFound, so every later *)
(* getById(id) fails with NotFound.                                        *)
(***************************************************************************)
C12_DeleteThenGone ==
  [][/\ \A c \in Callers :
          Calls(c, "DeleteSchema") /\ WithId(heap, call'[c].id) # {}
          => /\ ret'[c].err = nil
             /\ WithId(heap', call'[c].id) = {}
             /\ Len(heap') = Len(heap) - 1
             /\ \A i \in DOMAIN heap :
                  heap[i].id # call'[c].id
                  => \E j \in DOMAIN heap' : heap'[j] = heap[i]
     /\ \A id \in 1..seq : WithId(heap, id) = {} => WithId(heap', id) = {}
     /\ \A c \in Callers :
          Calls(c, "GetSchemaById") /\ WithId(heap, call'[c].id) = {}
          => NotFound(ret'[c].err) /\ out'.schemas = <<>>]_vars

\* the first record registered was deleted and getById of its id has failed
\* with NotFound, while a record registered later is live
C12_Witness ==
  \E c \in Callers :
    /\ Returned(c, "GetSchemaById")
    /\ NotFound(ret[c].err)
    /\ call[c].id = 1
    /\ seq = 2
    /\ Len(heap) = 1 /\ heap[1].id = 2

(***************************************************************************)
(* C13.  delete(id) on an id that no live record has fails with NotFound,  *)
(* that is returns an error, and leaves the store as it was.               *)
(***************************************************************************)
C13_Original ==
  [][\A c \in Callers :
       Calls(c, "DeleteSchema") /\ WithId(heap, call'[c].id) = {}
       => ret'[c].err # nil /\ heap' = heap]_vars

(***************************************************************************)
(* Candidates the data model does not admit: an empty name, type or        *)
(* version, and a type that is none of schema_type.                        *)
(***************************************************************************)
Candidates(names, types, versions) ==
  {QueryArgs(n, t, v, P1) : n \in names, t \in types, v \in versions}

\* one caller registers and updates with candidates of either kind
NextInvalid ==
  Run({"c1"},
      Candidates({"orders", ""}, {"json", "", "yaml"}, {"1.0.0", ""})
        \cup {QueryArgs("orders", "json", "1.0.0", P2)},
      Candidates({"orders", ""}, {"json", ""}, {"1.0.0", ""})
        \cup {QueryArgs("", "json", "1.0.0", P2)},
      Filters({"orders"}, {"json"}, {"1.0.0"}), Ids)

SpecInvalid == Init /\ [][NextInvalid]_vars

\* caller c took this step
Steps(c) == pc'[c] # pc[c] \/ out'.c = c

(***************************************************************************)
(* C14.  register fails with InvalidInput, an error, and creates no record *)
(* whenever name, type or version is empty or type is none of the          *)
(* supported values, for each of the fields by itself.                     *)
(***************************************************************************)
C14_Original ==
  [][\A c \in Callers :
       /\ Inserts(c)
       /\ \/ call[c].params.Name = ""
          \/ call[c].params.Type \notin schema_type
          \/ call[c].params.Version = ""
       => ret'[c].err # nil /\ heap' = heap]_vars

(***************************************************************************)
(* C15.  update with a candidate in which name, type or version is empty   *)
(* fails with InvalidInput, an error, and mutates nothing: no step of it   *)
(* inserts a record or changes a record, whatever the store holds.         *)
(***************************************************************************)
C15_Original ==
  [][\A c \in Callers :
       /\ Steps(c)
       /\ call'[c].op = "UpdateSchema"
       /\ ~Named(call'[c].params)
       => /\ heap' = heap
          /\ pc'[c] = "done" => ret'[c].err # nil]_vars

(***************************************************************************)
(* C16.  GetSchemaFilterParams called with name, type and version criteria *)
(* that no live record matches returns an error (not found), not an empty  *)
(* result without error.                                                   *)
(***************************************************************************)
C16_Original ==
  \A c \in Callers :
    /\ Returned(c, "GetSchemaFilterParams")
    /\ Named(call[c].params)
    /\ \A i \in DOMAIN heap : ~Satisfies(heap[i], call[c].params)
    => ret[c].err # nil

(***************************************************************************)
(* The store failing.  A statement run with QueryRow or Exec returns the   *)
(* error of the connection.  A query run with Query returns it when the    *)
(* connection fails before the statement is sent; when it fails later,     *)
(* rows.Next() returns false and the error stays in rows.Err(), which      *)
(* GetSchemaFilterParams does not read: it returns the rows scanned until  *)
(* then and no error.                                                      *)
(***************************************************************************)
connection_failure == "08006"

\* what a query that would have found the rows result returns when the
\* connection fails
QueryFails(result) ==
  {[schemas |-> <<>>,
    err |-> Errorf("error querying schemas", <<connection_failure>>)]}
  \cup {[schemas |-> SubSeq(result, 1, n), err |-> nil] :
          n \in 0..(Len(result) - 1)}

InsertSchemaFails(c) ==
  /\ pc[c] = "InsertSchema.insert"
  /\ call[c].op = "InsertSchema"
  /\ Return(c, 0, <<>>, InsertSchemaErr(<<connection_failure>>))
  /\ stamp' = [stamp EXCEPT ![c] = 0]
  /\ UNCHANGED <<heap, seq, now, call>>

GetSchemaFilterParamsFails(c, params) ==
  /\ Begin(c, "GetSchemaFilterParams", params, 0)
  /\ \E o \in QueryFails(GetSchemaFilterParams(heap, params)) :
       Return(c, 0, o.schemas, o.err)
  /\ UNCHANGED <<heap, seq, now, stamp>>

\* UpdateSchema when its first read fails
UpdateSchemaCallFails(c, params) ==
  /\ Begin(c, "UpdateSchema", params, 0)
  /\ \E o \in QueryFails(GetSchemaFilterParams(heap,
                 QueryArgs(params.Name, params.Type, params.Version, <<>>))) :
       IF o.err # nil
       THEN Return(c, 0, <<>>,
                   Errorf("error retrieving existing schema", o.err))
       ELSE CASE UpdateSchemaBranch(o.schemas, params) = "not found" ->
                   Return(c, 0, <<>>, <<"schema not found">>)
              [] UpdateSchemaBranch(o.schemas, params) = "insert" ->
                   Goto(c, "UpdateSchema.insert")
              [] UpdateSchemaBranch(o.schemas, params) = "update" ->
                   Goto(c, "UpdateSchema.now")
  /\ UNCHANGED <<heap, seq, now, stamp>>

\* UpdateSchema when its UPDATE fails
UpdateSchemaExecFails(c) ==
  /\ pc[c] = "UpdateSchema.update"
  /\ Return(c, 0, <<>>, Errorf("error updating schema", <<connection_failure>>))
  /\ stamp' = [stamp EXCEPT ![c] = 0]
  /\ UNCHANGED <<heap, seq, now, call>>

\* UpdateSchema when its last read fails
UpdateSchemaReturnFails(c) ==
  /\ pc[c] = "UpdateSchema.return"
  /\ \E o \in QueryFails(GetSchemaFilterParams(heap, call[c].params)) :
       Return(c, 0, o.schemas, o.err)
  /\ UNCHANGED <<heap, seq, now, call, stamp>>

\* two callers register, look up and update one identity; the store may fail
NextFail ==
  \E c \in Callers :
    \/ \E params \in Contended : InsertSchemaCall(c, params)
    \/ InsertSchemaExec(c)
    \/ InsertSchemaFails(c)
    \/ \E params \in Filters({"orders"}, {}, {}) :
         \/ GetSchemaFilterParamsCall(c, params)
         \/ GetSchemaFilterParamsFails(c, params)
    \/ \E params \in Contended :
         \/ UpdateSchemaCall(c, params)
         \/ UpdateSchemaCallFails(c, params)
    \/ UpdateSchemaNow(c)
    \/ UpdateSchemaExec(c)
    \/ UpdateSchemaExecFails(c)
    \/ UpdateSchemaReturn(c)
    \/ UpdateSchemaReturnFails(c)

SpecFail == Init /\ [][NextFail]_vars

(***************************************************************************)
(* What the handlers answer: the status and the body.                      *)
(***************************************************************************)
Response(status, body) == [status |-> status, body |-> body]

PostSchemaHandler(id, err) ==
  IF err # nil
  THEN Response(StatusInternalServerError, "failed to insert schema")
  ELSE Response(StatusOK, id)

GetSchemaFilterParamsHandler(schemas, err) ==
  IF err # nil
  THEN Response(StatusNotFound, "schema not found")
  ELSE Response(StatusOK, schemas)

\* the error is, or wraps, the failure of the connection to the store
StorageUnavailable(err) == err # nil /\ err[Len(err)] = connection_failure

(***************************************************************************)
(* C17.  A register refused because the identity exists comes to the       *)
(* caller as an outcome that can be told from that of a register failed by *)
(* the store, from InsertSchema as well as from the POST /schema handler.  *)
(***************************************************************************)
C17_Original ==
  \A c, d \in Callers :
    /\ pc[c] = "done" /\ call[c].op = "InsertSchema"
    /\ ConstraintViolation(ret[c].err)
    /\ pc[d] = "done" /\ call[d].op = "InsertSchema"
    /\ StorageUnavailable(ret[d].err)
    => /\ ret[c].err # ret[d].err
       /\ PostSchemaHandler(ret[c].id, ret[c].err)
            # PostSchemaHandler(ret[d].id, ret[d].err)

(***************************************************************************)
(* C18.  A failure of the store during a lookup or an update is never      *)
(* reported to the caller as NotFound nor as success: the operation        *)
(* returns the failure and its handler answers neither 404 nor 200.        *)
(***************************************************************************)
C18_Original ==
  [][\A c \in Callers :
       /\ GetSchemaFilterParamsFails(c, call'[c].params)
          => /\ StorageUnavailable(ret'[c].err)
             /\ GetSchemaFilterParamsHandler(out'.schemas, ret'[c].err).status
                  \notin {StatusNotFound, StatusOK}
       /\ /\ \/ UpdateSchemaCallFails(c, call'[c].params)
             \/ UpdateSchemaExecFails(c)
             \/ UpdateSchemaReturnFails(c)
          /\ pc'[c] = "done"
          => /\ StorageUnavailable(ret'[c].err)
             /\ UpdateSchemaHandler(ret'[c].err)
                  \notin {StatusNotFound, StatusOK}]_vars

(***************************************************************************)
(* C19.  Whatever registers and deletes have gone before, the id a         *)
(* successful register returns is none assigned earlier, the ids of        *)
(* records since deleted included: it is above every value the sequence    *)
(* has given, and every id assigned is one the sequence has given.  The id *)
(* of a live record never changes.                                         *)
(***************************************************************************)
LiveIds(h) == {h[i].id : i \in DOMAIN h}

C19_IdsNeverReused ==
  [][/\ seq' >= seq
     /\ LiveIds(heap) \subseteq 1..seq
     /\ LiveIds(heap') \subseteq 1..seq'
     /\ LiveIds(heap') \ LiveIds(heap) \subseteq (seq + 1)..seq'
     /\ \A c \in Callers :
          Inserts(c) /\ ret'[c].err = nil
          => /\ ret'[c].id > seq /\ ret'[c].id <= seq'
             /\ LiveIds(heap') = LiveIds(heap) \cup {ret'[c].id}
     /\ \A i \in DOMAIN heap, j \in DOMAIN heap' :
          /\ heap'[j].name = heap[i].name
          /\ heap'[j].type = heap[i].type
          /\ heap'[j].version = heap[i].version
          => heap'[j].id = heap[i].id]_vars

\* a register has returned the id 2 after the record with the id 1 was deleted
C19_Witness ==
  \E c \in Callers :
    /\ Returned(c, "InsertSchema")
    /\ ret[c].err = nil /\ ret[c].id = 2
    /\ seq = 2
    /\ Len(heap) = 1 /\ heap[1].id = 2

(***************************************************************************)
(* C20.  A live record stays live, with its identity, across every step of *)
(* register, update, lookup and listAll, successful or failed, by any      *)
(* caller: the only step that removes a record is a delete of the id of    *)
(* that record.                                                            *)
(***************************************************************************)
C20_OnlyDeleteRemoves ==
  [][\A i \in DOMAIN heap :
       \/ \E j \in DOMAIN heap' :
            /\ heap'[j].id = heap[i].id
            /\ heap'[j].name = heap[i].name
            /\ heap'[j].type = heap[i].type
            /\ heap'[j].version = heap[i].version
       \/ \E c \in Callers :
            Calls(c, "DeleteSchema") /\ call'[c].id = heap[i].id]_vars

\* the record registered first is live after a register of its identity was
\* refused and an update of it has returned
C20_Witness ==
  \E c, d \in Callers :
    /\ pc[c] = "done" /\ call[c].op = "InsertSchema"
    /\ ConstraintViolation(ret[c].err)
    /\ Returned(d, "UpdateSchema") /\ ret[d].err = nil
    /\ Len(heap) = 1 /\ heap[1].id = 1
    /\ heap[1].created < heap[1].modified

(***************************************************************************)
(* C21.  The payload write of update fails with NotFound when no live      *)
(* record has the identity of the candidate at the time of the write: if   *)
(* the record the first read of UpdateSchema found is deleted by another   *)
(* caller before the UPDATE runs, update reports an error, not success.    *)
(***************************************************************************)
C21_Original ==
  [][\A c \in Callers :
       /\ pc[c] = "UpdateSchema.update"
       /\ pc'[c] # pc[c]
       /\ Named(call[c].params)
       /\ Identical(heap, call[c].params) = {}
       => pc'[c] = "done" /\ ret'[c].err # nil]_vars

C23_Original ==
  /\ \A i \in DOMAIN heap : heap[i].modified >= heap[i].created
  /\ \A c \in Callers :
       Returned(c, "InsertSchema") /\ ret[c].err = nil
       => \A i \in WithId(heap, ret[c].id) :
            heap[i].created = heap[i].modified

====
